---- MODULE Spec2Model ----
(***************************************************************************)
(* The AI therapy chatbot backend (src/backend_gemini.py), its system      *)
(* prompt (src/prompts.py) and the store it talks to, as a state machine.  *)
(*                                                                         *)
(* The store (module `database`, imported at backend_gemini.py:19-28) is   *)
(* not among the sources; its seven functions are modelled from the        *)
(* specification's data model (spec sections 3, 4.1, 4.2 and 6).           *)
(*                                                                         *)
(* Every HTTP request is served by a worker.  A worker that serves /chat   *)
(* passes through the handler's database and model calls one at a time, so *)
(* that requests served at the same time interleave at those calls.        *)
(* Timestamps are not modelled: created_at is the position of a session in *)
(* creation order, and a message's position in its session is its time.    *)
(*                                                                         *)
(* A store call that writes may raise (spec section 7, StoreFailure); the  *)
(* handlers catch nothing around their store calls, so the request ends    *)
(* there with the framework's 500.  A read that raises changes nothing and *)
(* is left out.                                                            *)
(*                                                                         *)
(* The Streamlit client (src/frontend.py) is one browser session: its      *)
(* st.session_state and one action per thing the user can do.  A script    *)
(* run blocks on each request it makes, so a user action is one step,      *)
(* except that a submitted message waits for /chat to answer or for the    *)
(* request's timeout.  Any request of the client may fail (timeout,        *)
(* connection error): the helper then returns an error.                    *)
(***************************************************************************)
EXTENDS Integers, Sequences, FiniteSets, TLC

VARIABLES
    students,   \* the normalised e-mails that have a student row
    sessions,   \* the session rows in creation order; a session's id is its index
    msgs,       \* session id -> the message rows of that session, in insertion order
    req,        \* worker -> the request it is serving
    calls,      \* SpecLong only: the /chat calls made so far
    session_state   \* SpecUI only: st.session_state of the client

vars == <<students, sessions, msgs, req, calls, session_state>>

----------------------------------------------------------------------------
(* Bounds of the model *)

MaxSessions == 2      \* sessions ever created
MaxMsgs == 4          \* messages the store may hold in all
MaxPrior == 41        \* SpecLong: completed exchanges a session may start with
MaxMore == 2          \* SpecLong: further /chat calls on that session

Workers == {"w1", "w2"}

\* e-mails as typed by a caller, character by character
EmailA == <<"a", "@", "x", ".", "c">>
EmailAVariant == <<" ", "A", "@", "X", ".", "c">>
EmailB == <<"b", "@", "x", ".", "c">>
Emails == {EmailA, EmailAVariant, EmailB}

\* what a user may type into the login form
NotAnEmail == <<"a", "@", "x">>
TypedEmails == {EmailA, EmailAVariant, NotAnEmail}
TypedNames == {<<>>, <<" ", "A", "n">>}

Texts == {"hi"}
Causes == {"timeout", "quota"}

SessionIds == 1..(MaxSessions + 1)

----------------------------------------------------------------------------
(* The model gateway: an opaque function of its inputs.  A reply is tagged *)
(* with the text it answers, so that a stored reply can be matched with    *)
(* its prompt.                                                             *)

AnswerTo(reply) == IF reply = "(He shrugs) re: hi" THEN "hi" ELSE "none"

Replies == {"(He shrugs) re: hi"}

----------------------------------------------------------------------------
(* E-mail normalisation: str.strip().lower() *)

Lower(c) ==
    CASE c = "A" -> "a"
      [] c = "B" -> "b"
      [] c = "X" -> "x"
      [] OTHER -> c

RECURSIVE LStrip(_)
LStrip(s) == IF s # <<>> /\ Head(s) = " " THEN LStrip(Tail(s)) ELSE s

RECURSIVE RStrip(_)
RStrip(s) ==
    IF s # <<>> /\ s[Len(s)] = " " THEN RStrip(SubSeq(s, 1, Len(s) - 1)) ELSE s

Strip(s) == LStrip(RStrip(s))

Normalize(email) == [i \in 1..Len(Strip(email)) |-> Lower(Strip(email)[i])]

----------------------------------------------------------------------------
(* The store: module `database` *)

session_exists(session_id) == session_id \in 1..Len(sessions)

get_conversation_history(session_id) == msgs[session_id]

\* as save_message, had the row been put in front of the session's rows
save_message_in_front(session_id, role, content) ==
    [msgs EXCEPT ![session_id] = <<[role |-> role, content |-> content]>> \o @]

save_message(session_id, role, content) ==
    [msgs EXCEPT ![session_id] = Append(@, [role |-> role, content |-> content])]

\* as get_or_create_student, had the e-mail been taken as typed
get_or_create_student_as_typed(email) == students \cup {email}

get_or_create_student(email) == students \cup {Normalize(email)}

OwnedBy(student) == {i \in 1..Len(sessions) : sessions[i].owner = student}

create_session(student, persona) ==
    Append(sessions,
           [owner |-> student,
            session_name |-> <<persona, Cardinality(OwnedBy(student)) + 1>>])

Newest == [i \in 1..Len(sessions) |-> Len(sessions) + 1 - i]

get_user_sessions(user_id) ==
    LET mine == SelectSeq(Newest, LAMBDA i : sessions[i].owner = Normalize(user_id))
    IN  [k \in 1..Len(mine) |->
            [session_id |-> mine[k],
             session_name |-> sessions[mine[k]].session_name,
             created_at |-> mine[k],
             message_count |-> Len(msgs[mine[k]])]]

NoName == <<>>

get_session_name(session_id, user_id) ==
    IF sessions[session_id].owner = Normalize(user_id)
    THEN sessions[session_id].session_name
    ELSE NoName

----------------------------------------------------------------------------
(* src/prompts.py *)

PRITAM_SYSTEM_PROMPT == "PRITAM_SYSTEM_PROMPT"

get_system_prompt == <<PRITAM_SYSTEM_PROMPT>>

\* BEHAVIORAL PHASE MODEL: the phases by the number of therapist prompts passed
GuardedFirst == 1
GuardedLast == 20
WarmingUpFirst == 21
WarmingUpLast == 40
VulnerableFirst == 41

PhaseTableOverlapping ==
    << [label |-> "Guarded", first |-> GuardedFirst, last |-> GuardedLast, open |-> FALSE],
       [label |-> "Warming Up", first |-> GuardedLast, last |-> WarmingUpLast, open |-> FALSE],
       [label |-> "Vulnerable", first |-> WarmingUpLast, last |-> 0, open |-> TRUE] >>

PhaseTable ==
    << [label |-> "Guarded", first |-> GuardedFirst, last |-> GuardedLast, open |-> FALSE],
       [label |-> "Warming Up", first |-> WarmingUpFirst, last |-> WarmingUpLast, open |-> FALSE],
       [label |-> "Vulnerable", first |-> VulnerableFirst, last |-> 0, open |-> TRUE] >>

\* the phases the prompt assigns to the t-th therapist prompt
PhasesAt(t) ==
    {PhaseTable[i].label :
        i \in {j \in DOMAIN PhaseTable :
                  /\ PhaseTable[j].first <= t
                  /\ PhaseTable[j].open \/ t <= PhaseTable[j].last}}

----------------------------------------------------------------------------
(* src/backend_gemini.py: helpers *)

\* as convert_to_gemini_format, had line 99 compared the role with "user"
convert_to_gemini_format_by_user(history) ==
    [i \in 1..Len(history) |->
        [role |-> IF history[i].role = "user" THEN "model" ELSE "user",
         text |-> history[i].content]]

convert_to_gemini_format(history) ==
    [i \in 1..Len(history) |->
        [role |-> IF history[i].role = "assistant" THEN "model" ELSE "user",
         text |-> history[i].content]]

NoResponse == [status |-> 0, detail |-> <<>>, body |-> <<>>]

\* A worker's request: the fields of the request, the handler's locals, its
\* position (pc) and its response.  Three fields record what the call has done:
\* called (the model was invoked), raised (the cause the model call raised) and
\* saved (the message rows this call has stored).
Idle ==
    [op |-> "idle", pc |-> "idle", user_id |-> <<>>, session_id |-> 0,
     message |-> "", system_instruction |-> <<>>, gemini_messages |-> <<>>,
     gateway_history |-> <<>>, gateway_text |-> "", called |-> FALSE,
     raised |-> "",
     ai_response |-> "", saved |-> 0, response |-> NoResponse]

HTTPException(status, detail) == [status |-> status, detail |-> detail, body |-> <<>>]

Ok(body) == [status |-> 200, detail |-> <<>>, body |-> body]

\* an exception no handler catches: the framework answers 500
Unhandled == HTTPException(500, <<"Internal Server Error">>)

----------------------------------------------------------------------------
Begin(r, op, user_id, session_id, message) ==
    [req EXCEPT ![r].op = op, ![r].user_id = user_id,
                ![r].session_id = session_id, ![r].message = message]

Finish(q, r, response) == [q EXCEPT ![r].pc = "done", ![r].response = response]

----------------------------------------------------------------------------
(* POST /chat *)

chat_session_unchecked(session_id) == TRUE

chat_session_checked(session_id) == session_exists(session_id)

\* lines 131-154: validate the session, read its history, build the turns
ChatBegin(r, user_id, session_id, message) ==
    /\ req[r].pc = "idle"
    /\ LET q == Begin(r, "chat", user_id, session_id, message) IN
       \/ /\ ~chat_session_checked(session_id)
          /\ req' = Finish(q, r, HTTPException(404, <<"Session not found">>))
       \/ /\ chat_session_checked(session_id)
          /\ LET history == get_conversation_history(session_id)
                 gemini_messages ==
                     Append(convert_to_gemini_format(history),
                            [role |-> "user", text |-> message])
             IN  req' = [q EXCEPT ![r].pc = "gemini",
                                  ![r].system_instruction = get_system_prompt,
                                  ![r].gemini_messages = gemini_messages]
    /\ UNCHANGED <<students, sessions, msgs>>

\* as ChatGemini, had line 170 been placed before the try block
ChatGeminiSavesFirst(r) ==
    /\ req[r].pc = "gemini"
    /\ msgs' = save_message(req[r].session_id, "user", req[r].message)
    /\ LET turns == req[r].gemini_messages
           q == [req EXCEPT ![r].called = TRUE, ![r].saved = @ + 1,
                            ![r].gateway_history = SubSeq(turns, 1, Len(turns) - 1),
                            ![r].gateway_text = turns[Len(turns)].text]
       IN  \/ \E reply \in Replies :
                 /\ AnswerTo(reply) = turns[Len(turns)].text
                 /\ req' = [q EXCEPT ![r].pc = "save_assistant", ![r].ai_response = reply]
           \/ \E cause \in Causes :
                 req' = Finish([q EXCEPT ![r].raised = cause], r,
                               HTTPException(500, <<"Gemini API error", cause>>))
    /\ UNCHANGED <<students, sessions>>

\* lines 156-167: the model call, given all turns but the last as history
ChatGemini(r) ==
    /\ req[r].pc = "gemini"
    /\ LET turns == req[r].gemini_messages
           q == [req EXCEPT ![r].called = TRUE,
                            ![r].gateway_history = SubSeq(turns, 1, Len(turns) - 1),
                            ![r].gateway_text = turns[Len(turns)].text]
       IN  \/ \E reply \in Replies :
                 /\ AnswerTo(reply) = turns[Len(turns)].text
                 /\ req' = [q EXCEPT ![r].pc = "save_user", ![r].ai_response = reply]
           \/ \E cause \in Causes :
                 req' = Finish([q EXCEPT ![r].raised = cause], r,
                               HTTPException(500, <<"Gemini API error", cause>>))
    /\ UNCHANGED <<students, sessions, msgs>>

\* line 170
ChatSaveUser(r) ==
    /\ req[r].pc = "save_user"
    /\ \/ /\ msgs' = save_message(req[r].session_id, "user", req[r].message)
          /\ req' = [req EXCEPT ![r].pc = "save_assistant", ![r].saved = @ + 1]
       \/ /\ req' = Finish(req, r, Unhandled)   \* the store raises
          /\ UNCHANGED msgs
    /\ UNCHANGED <<students, sessions>>

\* as ChatSaveAssistant, had the reply been stored in the newest session
ChatSaveAssistantInNewest(r) ==
    /\ req[r].pc = "save_assistant"
    /\ \/ /\ msgs' = save_message(Len(sessions), "assistant", req[r].ai_response)
          /\ req' = Finish([req EXCEPT ![r].saved = @ + 1], r,
                           Ok([session_id |-> req[r].session_id,
                               ai_response |-> req[r].ai_response]))
       \/ /\ req' = Finish(req, r, Unhandled)
          /\ UNCHANGED msgs
    /\ UNCHANGED <<students, sessions>>

\* lines 171-178
ChatSaveAssistant(r) ==
    /\ req[r].pc = "save_assistant"
    /\ \/ /\ msgs' = save_message(req[r].session_id, "assistant", req[r].ai_response)
          /\ req' = Finish([req EXCEPT ![r].saved = @ + 1], r,
                           Ok([session_id |-> req[r].session_id,
                               ai_response |-> req[r].ai_response]))
       \/ /\ req' = Finish(req, r, Unhandled)   \* the store raises
          /\ UNCHANGED msgs
    /\ UNCHANGED <<students, sessions>>

----------------------------------------------------------------------------
(* POST /sessions/new.  The display name of the request is stored with the *)
(* student row and read by no operation; it is left out.                   *)

\* as create_new_session, had it returned the caller's latest session when there is one
create_new_session_reusing(r, user_id) ==
    /\ req[r].pc = "idle"
    /\ LET q == Begin(r, "new", user_id, 0, "")
           student == Normalize(user_id)
           mine == get_user_sessions(user_id)
       IN  \/ /\ req' = Finish(q, r, Unhandled)
              /\ UNCHANGED <<students, sessions>>
           \/ /\ students' = get_or_create_student(user_id)
              /\ req' = Finish(q, r, Unhandled)
              /\ UNCHANGED sessions
           \/ /\ students' = get_or_create_student(user_id)
              /\ IF mine # <<>>
                 THEN /\ UNCHANGED sessions
                      /\ req' = Finish(q, r,
                                  Ok([session_id |-> mine[1].session_id,
                                      session_name |-> mine[1].session_name]))
                 ELSE /\ sessions' = create_session(student, "Pritam")
                      /\ req' = Finish(q, r,
                                  Ok([session_id |-> Len(sessions'),
                                      session_name |->
                                          sessions'[Len(sessions')].session_name]))
    /\ UNCHANGED msgs

create_new_session(r, user_id) ==
    /\ req[r].pc = "idle"
    /\ LET q == Begin(r, "new", user_id, 0, "")
           student == Normalize(user_id)
       IN  \/ /\ req' = Finish(q, r, Unhandled)     \* get_or_create_student raises
              /\ UNCHANGED <<students, sessions>>
           \/ /\ students' = get_or_create_student(user_id)
              /\ req' = Finish(q, r, Unhandled)     \* create_session raises
              /\ UNCHANGED sessions
           \/ /\ students' = get_or_create_student(user_id)
              /\ sessions' = create_session(student, "Pritam")
              /\ req' = Finish(q, r,
                          Ok([session_id |-> Len(sessions'),
                              session_name |-> sessions'[Len(sessions')].session_name]))
    /\ UNCHANGED msgs

----------------------------------------------------------------------------
(* GET /users/{user_id}/sessions *)

SessionInfoStale(s) ==
    [session_id |-> s.session_id, session_name |-> s.session_name,
     created_at |-> s.created_at, message_count |-> 0]

SessionInfo(s) ==
    [session_id |-> s.session_id, session_name |-> s.session_name,
     created_at |-> s.created_at, message_count |-> s.message_count]

\* the answer of the handler
sessions_response(user_id) ==
    LET found == get_user_sessions(user_id)
    IN  Ok([k \in 1..Len(found) |-> SessionInfo(found[k])])

get_sessions_for_user(r, user_id) ==
    /\ req[r].pc = "idle"
    /\ LET q == Begin(r, "list", user_id, 0, "")
       IN  req' = Finish(q, r, sessions_response(user_id))
    /\ UNCHANGED <<students, sessions, msgs>>

----------------------------------------------------------------------------
(* GET /conversations/{session_id} *)

display_role_mistyped(role) == IF role = "student" THEN "student" ELSE "ai"

display_role(role) == IF role = "user" THEN "student" ELSE "ai"

conversation_unchecked(session_id, user_id) == TRUE

conversation_owned(session_id, user_id) ==
    get_session_name(session_id, user_id) # NoName

\* the answer of the handler
conversation_response(session_id, user_id) ==
    IF ~session_exists(session_id)
    THEN HTTPException(404, <<"Session not found">>)
    ELSE IF ~conversation_owned(session_id, user_id)
    THEN HTTPException(404, <<"Session not found for this user">>)
    ELSE LET messages == get_conversation_history(session_id) IN
         Ok([session_id |-> session_id,
             session_name |-> get_session_name(session_id, user_id),
             messages |->
                 [i \in 1..Len(messages) |->
                     [role |-> display_role(messages[i].role),
                      content |-> messages[i].content]]])

get_conversation(r, session_id, user_id) ==
    /\ req[r].pc = "idle"
    /\ LET q == Begin(r, "conversation", user_id, session_id, "")
       IN  req' = Finish(q, r, conversation_response(session_id, user_id))
    /\ UNCHANGED <<students, sessions, msgs>>

----------------------------------------------------------------------------
(* The response has been sent; the worker takes the next request. *)

Return(r) ==
    /\ req[r].pc = "done"
    /\ req' = [req EXCEPT ![r] = Idle]
    /\ UNCHANGED <<students, sessions, msgs>>

----------------------------------------------------------------------------
(* src/frontend.py: st.session_state.  None is NoSession for a session id, *)
(* NoName for a session name and the empty string for the user's e-mail    *)
(* and name.  Beside the seven keys of the source the record holds the     *)
(* position of the script run that is waiting for /chat (pc, worker,       *)
(* user_input) and three fields that record what has happened: last (the   *)
(* screen whose button started the latest script run: login, refused for a *)
(* login form that was turned down, chat, logout), errors (the requests of *)
(* a login that returned an error) and gave_up (the workers still serving  *)
(* a /chat request whose caller has timed out).                            *)

NoSession == 0

LoggedOut ==
    [logged_in |-> FALSE, current_user_id |-> <<>>, current_user_name |-> <<>>,
     current_session_id |-> NoSession, current_session_name |-> NoName,
     messages |-> <<>>, sessions_list |-> <<>>,
     pc |-> "idle", worker |-> "none", user_input |-> "",
     last |-> "start", errors |-> {}, gave_up |-> {}]

Contains(s, c) == \E i \in DOMAIN s : s[i] = c

\* lines 86-94: the sessions and the error of the helper; any request may fail
api_get_user_sessions(user_id) ==
    LET response == sessions_response(user_id)
    IN  {[sessions |-> response.body, error |-> FALSE],
         [sessions |-> <<>>, error |-> TRUE]}

\* lines 96-109
api_get_conversation(user_id, session_id) ==
    LET response == conversation_response(session_id, user_id)
        failed == [messages |-> <<>>, sess_name |-> NoName, error |-> TRUE]
    IN  IF response.status = 200
        THEN {[messages |-> response.body.messages,
               sess_name |-> response.body.session_name, error |-> FALSE],
              failed}
        ELSE {failed}

\* lines 216-218, run by every script run of the chat screen
Refreshed(s) ==
    {IF o.error THEN s ELSE [s EXCEPT !.sessions_list = o.sessions] :
        o \in api_get_user_sessions(s.current_user_id)}

\* as Fresh, had the messages been left on the page
Fresh_with_messages(s) ==
    [s EXCEPT !.current_session_id = NoSession,
              !.current_session_name = NoName]

Fresh(s) ==
    [s EXCEPT !.current_session_id = NoSession,
              !.current_session_name = NoName,
              !.messages = <<>>]

Failed(s, request) == [s EXCEPT !.errors = @ \cup {request}]

\* as resumable, had line 157 been left out
resumable_always(latest_session) == TRUE

\* line 157
resumable(latest_session) == latest_session.message_count > 0

\* as latest, had line 155 taken the other end of the list
latest_reversed(listed_sessions) == listed_sessions[Len(listed_sessions)]

\* line 155: the list comes sorted, the most recently created session first
latest(listed_sessions) == listed_sessions[1]

\* lines 149-185: Smart Resume
Resumed(s, user_id, listed) ==
    IF ~listed.error /\ listed.sessions # <<>>
    THEN LET latest_session == latest(listed.sessions) IN
         IF resumable(latest_session)
         THEN {IF ~c.error
               THEN [s EXCEPT !.current_session_id = latest_session.session_id,
                              !.current_session_name = c.sess_name,
                              !.messages = c.messages]
               ELSE Failed(Fresh(s), "conversation") :
                  c \in api_get_conversation(user_id, latest_session.session_id)}
         ELSE {Fresh(s)}
    ELSE {IF listed.error THEN Failed(Fresh(s), "sessions") ELSE Fresh(s)}

\* lines 135-142: the form is refused and nothing changes
LoginRefused(email, name) ==
    /\ ~session_state.logged_in
    /\ session_state.pc = "idle"
    /\ \/ email = <<>>
       \/ name = <<>>
       \/ ~Contains(email, "@")
       \/ ~Contains(email, ".")
    /\ session_state' = [session_state EXCEPT !.last = "refused", !.errors = {}]
    /\ UNCHANGED <<students, sessions, msgs, req>>

\* lines 135-187, then the first run of the chat screen up to line 218
Login(email, name) ==
    /\ ~session_state.logged_in
    /\ session_state.pc = "idle"
    /\ email # <<>> /\ name # <<>>
    /\ Contains(email, "@") /\ Contains(email, ".")
    /\ LET user_id == Normalize(email)
           s == [session_state EXCEPT !.logged_in = TRUE,
                                      !.current_user_id = user_id,
                                      !.current_user_name = Strip(name),
                                      !.last = "login", !.errors = {}]
       IN  \E listed \in api_get_user_sessions(user_id) :
              \E t \in Resumed(s, user_id, listed) :
                 session_state' \in Refreshed(t)
    /\ UNCHANGED <<students, sessions, msgs, req>>

\* lines 207-218
NewChat ==
    /\ session_state.logged_in
    /\ session_state.pc = "idle"
    /\ session_state' \in
          Refreshed([Fresh(session_state) EXCEPT !.last = "chat", !.errors = {}])
    /\ UNCHANGED <<students, sessions, msgs, req>>

\* as find_session_id, had the loop not compared the names
find_session_id_unmatched(sessions_list, selected_session) ==
    IF sessions_list = <<>> THEN NoSession ELSE sessions_list[1].session_id

\* lines 247-251: the id of the first session of the list that has the name
find_session_id(sessions_list, selected_session) ==
    LET hits == {k \in DOMAIN sessions_list :
                    sessions_list[k].session_name = selected_session}
    IN  IF hits = {} THEN NoSession
        ELSE sessions_list[CHOOSE k \in hits : \A j \in hits : k <= j].session_id

\* lines 216-267: the user picks the k-th entry of the dropdown and loads it
LoadSession(k) ==
    /\ session_state.logged_in
    /\ session_state.pc = "idle"
    /\ \E s \in Refreshed([session_state EXCEPT !.last = "chat", !.errors = {}]) :
          /\ k \in DOMAIN s.sessions_list
          /\ LET selected_session == s.sessions_list[k].session_name
                 session_id == find_session_id(s.sessions_list, selected_session)
             IN  IF session_id = NoSession
                 THEN session_state' = s
                 ELSE \E c \in api_get_conversation(s.current_user_id, session_id) :
                         IF c.error
                         THEN session_state' = s
                         ELSE session_state' \in
                                 Refreshed([s EXCEPT
                                     !.current_session_id = session_id,
                                     !.current_session_name = c.sess_name,
                                     !.messages = c.messages])
    /\ UNCHANGED <<students, sessions, msgs, req>>

\* lines 272-280
Logout ==
    /\ session_state.logged_in
    /\ session_state.pc = "idle"
    /\ session_state' =
          [session_state EXCEPT !.logged_in = FALSE,
                                !.current_user_id = <<>>,
                                !.current_user_name = <<>>,
                                !.current_session_id = NoSession,
                                !.current_session_name = NoName,
                                !.messages = <<>>,
                                !.sessions_list = <<>>,
                                !.last = "logout", !.errors = {}]
    /\ UNCHANGED <<students, sessions, msgs, req>>

\* as needs_session, had the first message been sent without a session
needs_session_never(current_session_id) == FALSE

\* as needs_session, had line 303 been left out
needs_session_always(current_session_id) == TRUE

\* line 303
needs_session(current_session_id) == current_session_id = NoSession

\* lines 318-335: the message is shown, then /chat is called
Sending(s, r, user_input) ==
    [s EXCEPT !.messages = Append(@, [role |-> "student", content |-> user_input]),
              !.pc = "waiting", !.worker = r, !.user_input = user_input]

\* lines 301-316: a message typed while no session is chosen creates one first
SubmitFirst(r, user_input) ==
    /\ session_state.logged_in
    /\ session_state.pc = "idle"
    /\ needs_session(session_state.current_session_id)
    /\ create_new_session(r, session_state.current_user_id)
    /\ \E s \in Refreshed([session_state EXCEPT !.last = "chat", !.errors = {}]) :
          session_state' =
             IF req'[r].response.status = 200
             THEN [s EXCEPT !.current_session_id = req'[r].response.body.session_id,
                            !.current_session_name = req'[r].response.body.session_name,
                            !.pc = "send", !.user_input = user_input]
             ELSE s

\* lines 318-335 of the run that has created the session
SubmitSend(r) ==
    /\ session_state.pc = "send"
    /\ ChatBegin(r, session_state.current_user_id,
                 session_state.current_session_id, session_state.user_input)
    /\ session_state' = Sending(session_state, r, session_state.user_input)

\* lines 216-218 and 301-335: a message typed in the chosen session
Submit(r, user_input) ==
    /\ session_state.logged_in
    /\ session_state.pc = "idle"
    /\ ~needs_session(session_state.current_session_id)
    /\ ChatBegin(r, session_state.current_user_id,
                 session_state.current_session_id, user_input)
    /\ \E s \in Refreshed([session_state EXCEPT !.last = "chat", !.errors = {}]) :
          session_state' = Sending(s, r, user_input)

\* lines 78-82 and 337-351: /chat has answered
ChatAnswer ==
    /\ session_state.pc = "waiting"
    /\ Return(session_state.worker)
    /\ LET response == req[session_state.worker].response
           s == [session_state EXCEPT !.pc = "idle", !.worker = "none",
                                      !.user_input = ""]
       IN  IF response.status = 200
           THEN session_state' \in
                   Refreshed([s EXCEPT !.messages =
                       Append(@, [role |-> "ai",
                                  content |-> response.body.ai_response])])
           ELSE session_state' = s

\* lines 76, 83-84 and 337-338: the request times out while /chat is being
\* served; the server goes on serving it
ChatTimeout ==
    /\ session_state.pc = "waiting"
    /\ req[session_state.worker].pc \in {"gemini", "save_user", "save_assistant"}
    /\ session_state' =
          [session_state EXCEPT !.pc = "idle", !.worker = "none",
                                !.user_input = "",
                                !.gave_up = @ \cup {session_state.worker}]
    /\ UNCHANGED <<students, sessions, msgs, req>>

\* a request nobody waits for any more has been served
Dropped(r) ==
    /\ ~(session_state.pc = "waiting" /\ session_state.worker = r)
    /\ Return(r)
    /\ session_state' = [session_state EXCEPT !.gave_up = @ \ {r}]

----------------------------------------------------------------------------
(* Spec: any callers, two workers *)

Init ==
    /\ students = {}
    /\ sessions = <<>>
    /\ msgs = [s \in SessionIds |-> <<>>]
    /\ req = [r \in Workers |-> Idle]
    /\ calls = 0
    /\ session_state = LoggedOut

\* the chat calls in progress
InFlight ==
    {r \in Workers : /\ req[r].op = "chat"
                     /\ req[r].pc \in {"gemini", "save_user", "save_assistant"}}

RECURSIVE Total(_)
Total(n) == IF n = 0 THEN 0 ELSE Len(msgs[n]) + Total(n - 1)

\* bound of the model: no further /chat is called once the store may fill up
RoomFor(cap) == Total(MaxSessions + 1) + 2 * Cardinality(InFlight) + 2 <= cap

\* A finished request is answered before any worker takes its next step: the
\* answer depends on nothing that happens after it.
Answered == \A r \in Workers : req[r].pc # "done"

Next ==
    \/ \E r \in Workers, u \in Emails, s \in SessionIds, m \in Texts :
          /\ Answered
          /\ session_exists(s) => RoomFor(MaxMsgs)
          /\ ChatBegin(r, u, s, m)
          /\ UNCHANGED <<calls, session_state>>
    \/ \E r \in Workers : Answered /\ ChatGemini(r) /\ UNCHANGED <<calls, session_state>>
    \/ \E r \in Workers : Answered /\ ChatSaveUser(r) /\ UNCHANGED <<calls, session_state>>
    \/ \E r \in Workers : Answered /\ ChatSaveAssistant(r) /\ UNCHANGED <<calls, session_state>>
    \/ \E r \in Workers, u \in Emails :
          /\ Answered
          /\ Len(sessions) < MaxSessions
          /\ create_new_session(r, u)
          /\ UNCHANGED <<calls, session_state>>
    \/ \E r \in Workers, u \in Emails :
          Answered /\ get_sessions_for_user(r, u) /\ UNCHANGED <<calls, session_state>>
    \/ \E r \in Workers, u \in Emails, s \in SessionIds :
          Answered /\ get_conversation(r, s, u) /\ UNCHANGED <<calls, session_state>>
    \/ \E r \in Workers : Return(r) /\ UNCHANGED <<calls, session_state>>

Spec == Init /\ [][Next]_vars

----------------------------------------------------------------------------
(* SpecLong: up to MaxMore /chat calls, which may overlap, on a session     *)
(* that already holds up to MaxPrior completed exchanges.                  *)

PriorHistory(k) ==
    [i \in 1..(2 * k) |->
        IF i % 2 = 1 THEN [role |-> "user", content |-> "hi"]
                     ELSE [role |-> "assistant", content |-> "(He shrugs) re: hi"]]

InitLong ==
    /\ students = {EmailA}
    /\ sessions = <<[owner |-> EmailA, session_name |-> <<"Pritam", 1>>]>>
    /\ \E k \in 0..MaxPrior :
          msgs = [s \in SessionIds |-> IF s = 1 THEN PriorHistory(k) ELSE <<>>]
    /\ req = [r \in Workers |-> Idle]
    /\ calls = 0
    /\ session_state = LoggedOut

NextLong ==
    \/ \E r \in Workers, s \in 1..2, m \in Texts :
          /\ calls < MaxMore
          /\ calls' = calls + 1
          /\ ChatBegin(r, EmailA, s, m)
          /\ UNCHANGED session_state
    \/ \E r \in Workers : ChatGemini(r) /\ UNCHANGED <<calls, session_state>>
    \/ \E r \in Workers : ChatSaveUser(r) /\ UNCHANGED <<calls, session_state>>
    \/ \E r \in Workers : ChatSaveAssistant(r) /\ UNCHANGED <<calls, session_state>>
    \/ \E r \in Workers : Return(r) /\ UNCHANGED <<calls, session_state>>

SpecLong == InitLong /\ [][NextLong]_vars

----------------------------------------------------------------------------
(* SpecUI: one client and the server behind it.  The client's requests are  *)
(* the only ones; a /chat request whose caller has timed out is still       *)
(* served.                                                                 *)

\* bound of the model: no further message is typed once the page may fill up
RoomToShow == Len(session_state.messages) + 2 <= MaxMsgs

NextUI ==
    \/ \E email \in TypedEmails, name \in TypedNames :
          Answered /\ LoginRefused(email, name) /\ UNCHANGED calls
    \/ \E email \in TypedEmails, name \in TypedNames :
          Answered /\ Login(email, name) /\ UNCHANGED calls
    \/ Answered /\ NewChat /\ UNCHANGED calls
    \/ \E k \in 1..MaxSessions : Answered /\ LoadSession(k) /\ UNCHANGED calls
    \/ Answered /\ Logout /\ UNCHANGED calls
    \/ \E r \in Workers, m \in Texts :
          /\ Answered
          /\ Len(sessions) < MaxSessions
          /\ RoomFor(MaxMsgs) /\ RoomToShow
          /\ SubmitFirst(r, m)
          /\ UNCHANGED calls
    \/ \E r \in Workers : Answered /\ SubmitSend(r) /\ UNCHANGED calls
    \/ \E r \in Workers, m \in Texts :
          /\ Answered
          /\ RoomFor(MaxMsgs) /\ RoomToShow
          /\ Submit(r, m)
          /\ UNCHANGED calls
    \/ ChatAnswer /\ UNCHANGED calls
    \/ Answered /\ ChatTimeout /\ UNCHANGED calls
    \/ \E r \in Workers :
          Answered /\ ChatGemini(r) /\ UNCHANGED <<calls, session_state>>
    \/ \E r \in Workers :
          Answered /\ ChatSaveUser(r) /\ UNCHANGED <<calls, session_state>>
    \/ \E r \in Workers :
          Answered /\ ChatSaveAssistant(r) /\ UNCHANGED <<calls, session_state>>
    \/ \E r \in Workers : Dropped(r) /\ UNCHANGED calls

SpecUI == Init /\ [][NextUI]_vars

----------------------------------------------------------------------------
(* SpecUsers: the client used by two users in turn.  No request of the     *)
(* client times out here and no login form is turned down.                 *)

LoginEmails == Emails

NextUsers ==
    \/ \E email \in LoginEmails, name \in TypedNames :
          Answered /\ Login(email, name) /\ UNCHANGED calls
    \/ Answered /\ NewChat /\ UNCHANGED calls
    \/ \E k \in 1..MaxSessions : Answered /\ LoadSession(k) /\ UNCHANGED calls
    \/ Answered /\ Logout /\ UNCHANGED calls
    \/ \E r \in Workers, m \in Texts :
          /\ Answered
          /\ Len(sessions) < MaxSessions
          /\ RoomFor(MaxMsgs) /\ RoomToShow
          /\ SubmitFirst(r, m)
          /\ UNCHANGED calls
    \/ \E r \in Workers : Answered /\ SubmitSend(r) /\ UNCHANGED calls
    \/ \E r \in Workers, m \in Texts :
          /\ Answered
          /\ RoomFor(MaxMsgs) /\ RoomToShow
          /\ Submit(r, m)
          /\ UNCHANGED calls
    \/ ChatAnswer /\ UNCHANGED calls
    \/ \E r \in Workers :
          Answered /\ ChatGemini(r) /\ UNCHANGED <<calls, session_state>>
    \/ \E r \in Workers :
          Answered /\ ChatSaveUser(r) /\ UNCHANGED <<calls, session_state>>
    \/ \E r \in Workers :
          Answered /\ ChatSaveAssistant(r) /\ UNCHANGED <<calls, session_state>>
    \/ \E r \in Workers : Dropped(r) /\ UNCHANGED calls

SpecUsers == Init /\ [][NextUsers]_vars

----------------------------------------------------------------------------
(* Helpers of the properties *)

\* the therapist prompts among the turns of a call: the prompt number of its message
UserTurns(turns) == Cardinality({i \in DOMAIN turns : turns[i].role = "user"})

UserCount(history) == Cardinality({i \in DOMAIN history : history[i].role = "user"})

InFlightOn(session_id) == {r \in InFlight : req[r].session_id = session_id}

\* a history of exchanges: each user message followed by the reply to it
Paired(history) ==
    /\ Len(history) % 2 = 0
    /\ \A i \in 1..(Len(history) \div 2) :
          /\ history[2 * i - 1].role = "user"
          /\ history[2 * i].role = "assistant"
          /\ AnswerTo(history[2 * i].content) = history[2 * i - 1].content

Rank(label) ==
    CASE label = "Guarded" -> 1
      [] label = "Warming Up" -> 2
      [] label = "Vulnerable" -> 3
      [] OTHER -> 0

ExpectedPhase(t) ==
    IF t <= 20 THEN "Guarded" ELSE IF t <= 40 THEN "Warming Up" ELSE "Vulnerable"

Starts(r, op) == req[r].pc = "idle" /\ req'[r].op = op

----------------------------------------------------------------------------
(* C1: a finished /chat call has stored none or both of its two messages,  *)
(* never exactly one, whatever its outcome.                                *)
C1_ZeroOrTwoSaved ==
    \A r \in Workers :
        (req[r].op = "chat" /\ req[r].pc = "done") => req[r].saved \in {0, 2}

(* C2: when the model call of a /chat fails, that step stores nothing, the *)
(* call has stored nothing before it, and the call ends with status 500    *)
(* whose detail is "Gemini API error" with the cause that was raised.      *)
C2_GatewayFailurePersistsNothing ==
    [][\A r \in Workers :
         (req[r].pc = "gemini" /\ req'[r].pc = "done") =>
            /\ msgs' = msgs
            /\ sessions' = sessions
            /\ req'[r].saved = 0
            /\ req'[r].raised \in Causes
            /\ req'[r].response.status = 500
            /\ req'[r].response.detail = <<"Gemini API error", req'[r].raised>>]_vars

C2_Witness ==
    \E r \in Workers :
        /\ req[r].op = "chat" /\ req[r].pc = "done"
        /\ req[r].response.detail = <<"Gemini API error", "timeout">>
        /\ Len(msgs[req[r].session_id]) = 2

(* C3: every session's history is a sequence of exchanges, a user message  *)
(* followed at once by the reply generated for it.  Stated of the sessions *)
(* no /chat call is working on, where the claim is easiest to meet.        *)
C3_HistoryIsPairs ==
    \A s \in SessionIds : InFlightOn(s) = {} => Paired(msgs[s])

(* C4: a /chat call that names no existing session ends at once with 404   *)
(* "Session not found": the model is not called, nothing is stored and no  *)
(* session is created.                                                     *)
C4_UnknownSessionRejected ==
    [][\A r \in Workers :
         (Starts(r, "chat") /\ ~session_exists(req'[r].session_id)) =>
            /\ req'[r].pc = "done"
            /\ req'[r].response.status = 404
            /\ req'[r].response.detail = <<"Session not found">>
            /\ ~req'[r].called
            /\ msgs' = msgs
            /\ sessions' = sessions
            /\ students' = students]_vars

C4_Witness ==
    \E r \in Workers :
        /\ req[r].op = "chat" /\ req[r].pc = "done"
        /\ req[r].response.status = 404
        /\ Len(sessions) = 1
        /\ req[r].session_id = 2

(* C5: the system instruction of every model call is the persona script    *)
(* combined with the phase of turn n+1, n being the user messages stored   *)
(* when the call read the history.                                         *)
C5_InstructionCarriesPhase ==
    \A r \in Workers :
        req[r].called =>
            \E label \in PhasesAt(UserTurns(req[r].gemini_messages)) :
                req[r].system_instruction = <<PRITAM_SYSTEM_PROMPT, label>>

C7_OnlyOwnerReadsTranscript ==
    [][\A r \in Workers :
         Starts(r, "conversation") =>
            LET q == req'[r] IN
            /\ (/\ session_exists(q.session_id)
                /\ sessions[q.session_id].owner # Normalize(q.user_id)) =>
                  /\ q.response.status = 404
                  /\ q.response.detail = <<"Session not found for this user">>
                  /\ q.response.detail # <<"Session not found">>
            /\ ~session_exists(q.session_id) =>
                  /\ q.response.status = 404
                  /\ q.response.detail = <<"Session not found">>
            /\ q.response.status = 200 =>
                  /\ session_exists(q.session_id)
                  /\ sessions[q.session_id].owner = Normalize(q.user_id)]_vars

C7_Witness ==
    \E r \in Workers :
        /\ req[r].op = "conversation" /\ req[r].pc = "done"
        /\ req[r].response.detail = <<"Session not found for this user">>
        /\ Len(msgs[req[r].session_id]) >= 2

(* C8: /conversations for a session of the caller answers 200 with the     *)
(* session's stored messages: as many, with the same contents, in stored   *)
(* order, each role shown as student (user) or ai (any other).             *)
C8_ConversationAsStored ==
    [][\A r \in Workers :
         (/\ Starts(r, "conversation")
          /\ session_exists(req'[r].session_id)
          /\ sessions[req'[r].session_id].owner = Normalize(req'[r].user_id)) =>
            LET stored == msgs[req'[r].session_id]
                q == req'[r]
            IN  /\ q.response.status = 200
                /\ q.response.body.session_id = q.session_id
                /\ q.response.body.session_name = sessions[q.session_id].session_name
                /\ Len(q.response.body.messages) = Len(stored)
                /\ \A i \in 1..Len(stored) :
                      /\ q.response.body.messages[i].content = stored[i].content
                      /\ q.response.body.messages[i].role =
                            IF stored[i].role = "user" THEN "student" ELSE "ai"]_vars

C8_Witness ==
    \E r \in Workers :
        /\ req[r].op = "conversation" /\ req[r].pc = "done"
        /\ req[r].response.status = 200
        /\ Len(req[r].response.body.messages) = 2
        /\ req[r].response.body.messages[1].role = "student"
        /\ req[r].response.body.messages[2].role = "ai"
        /\ \E s \in SessionIds : s # req[r].session_id /\ msgs[s] # <<>>

(* C9: /users/{user}/sessions answers 200 with exactly the caller's        *)
(* sessions, the most recently created first, each with the number of      *)
(* messages stored for it at that moment; with no session, an empty list.  *)
C9_ListSessions ==
    [][\A r \in Workers :
         Starts(r, "list") =>
            LET mine == OwnedBy(Normalize(req'[r].user_id))
                body == req'[r].response.body
            IN  /\ req'[r].response.status = 200
                /\ Len(body) = Cardinality(mine)
                /\ {body[k].session_id : k \in 1..Len(body)} = mine
                /\ \A k \in 1..Len(body) :
                      /\ body[k].session_name = sessions[body[k].session_id].session_name
                      /\ body[k].created_at = body[k].session_id
                      /\ body[k].message_count = Len(msgs[body[k].session_id])
                /\ \A k \in 1..(Len(body) - 1) :
                      body[k].created_at > body[k + 1].created_at
                /\ mine = {} => body = <<>>]_vars

C9_Witness ==
    \E r \in Workers :
        /\ req[r].op = "list" /\ req[r].pc = "done"
        /\ Len(req[r].response.body) = 2
        /\ req[r].response.body[1].session_id = 2
        /\ req[r].response.body[1].message_count = 0
        /\ req[r].response.body[2].message_count = 2

(* C10: /sessions/new leaves every session and every message as it was; a  *)
(* call that answers 200 has added exactly one session, under an id that   *)
(* named no session before, owned by the student of the caller's e-mail    *)
(* and holding no message; a call that fails has added none.               *)
C10_StartSessionCreatesOne ==
    [][\A r \in Workers :
         Starts(r, "new") =>
            LET q == req'[r] IN
            /\ msgs' = msgs
            /\ SubSeq(sessions', 1, Len(sessions)) = sessions
            /\ q.response.status = 200 =>
                  /\ Len(sessions') = Len(sessions) + 1
                  /\ q.response.body.session_id = Len(sessions')
                  /\ ~session_exists(q.response.body.session_id)
                  /\ sessions'[Len(sessions')].owner = Normalize(q.user_id)
                  /\ Normalize(q.user_id) \in students'
                  /\ msgs'[q.response.body.session_id] = <<>>
            /\ q.response.status # 200 => sessions' = sessions]_vars

C10_Witness ==
    \E r \in Workers :
        /\ req[r].op = "new" /\ req[r].pc = "done"
        /\ req[r].response.status = 200
        /\ req[r].response.body.session_id = 2
        /\ sessions[1].owner = sessions[2].owner
        /\ msgs[1] # <<>>
        /\ msgs[2] = <<>>

----------------------------------------------------------------------------
(* Helpers of the properties of the client *)

\* the step is a login that was accepted
LoggingIn == ~session_state.logged_in /\ session_state'.logged_in

\* a stored history as the client shows it
Shown(history) ==
    [i \in 1..Len(history) |->
        [role |-> IF history[i].role = "user" THEN "student" ELSE "ai",
         content |-> history[i].content]]

\* the sessions of a student without a message
EmptySessions(student) == {i \in OwnedBy(student) : msgs[i] = <<>>}

(* C12: a login of a user who has no session, or whose most recently       *)
(* created session holds no message, leaves no session chosen and no       *)
(* message shown, sends no /sessions/new request and leaves the sessions   *)
(* of the store as they were.                                              *)
C12_LoginStartsFresh ==
    [][LoggingIn =>
         LET mine == get_user_sessions(session_state'.current_user_id) IN
         (mine = <<>> \/ mine[1].message_count = 0) =>
            /\ session_state'.current_session_id = NoSession
            /\ session_state'.current_session_name = NoName
            /\ session_state'.messages = <<>>
            /\ req' = req
            /\ sessions' = sessions
            /\ Len(sessions') = Len(sessions)]_vars

C12_Witness ==
    /\ session_state.last = "login"
    /\ session_state.errors = {}
    /\ session_state.current_session_id = NoSession
    /\ session_state.messages = <<>>
    /\ Len(session_state.sessions_list) = 2
    /\ session_state.sessions_list[1].message_count = 0
    /\ session_state.sessions_list[2].message_count = 2

(* C13 as claimed: a login of a user whose most recently created session   *)
(* holds a message chooses that session and shows its stored messages.     *)
C13_LoginResumesLatest ==
    [][LoggingIn =>
         LET mine == get_user_sessions(session_state'.current_user_id) IN
         (mine # <<>> /\ mine[1].message_count > 0) =>
            /\ session_state'.current_session_id = mine[1].session_id
            /\ session_state'.messages = Shown(msgs[mine[1].session_id])]_vars

(* C13: a login of a user whose most recently created session holds a      *)
(* message chooses that session, and no older one, and shows all its       *)
(* stored messages in stored order, provided the session list and the      *)
(* conversation were both fetched; when either request fails the login     *)
(* leaves no session chosen and no message shown.                          *)
C13_LoginResumesLatestIfFetched ==
    [][LoggingIn =>
         LET mine == OwnedBy(session_state'.current_user_id)
             newest == CHOOSE i \in mine : \A j \in mine : j <= i
         IN  (mine # {} /\ msgs[newest] # <<>>) =>
                IF session_state'.errors = {}
                THEN /\ session_state'.current_session_id = newest
                     /\ session_state'.current_session_name
                           = sessions[newest].session_name
                     /\ session_state'.messages = Shown(msgs[newest])
                ELSE /\ session_state'.current_session_id = NoSession
                     /\ session_state'.current_session_name = NoName
                     /\ session_state'.messages = <<>>]_vars

C13_Witness ==
    /\ session_state.last = "login"
    /\ session_state.errors = {}
    /\ session_state.current_session_id = 2
    /\ Len(session_state.messages) = 2
    /\ session_state.messages = Shown(msgs[2])
    /\ msgs[1] # <<>>
    /\ sessions[1].owner = sessions[2].owner

(* C14: whatever the user does (login, New Chat, a first message that      *)
(* creates a session, messages that fail or succeed, logout), the user     *)
(* never has more than one session without a message, and a session        *)
(* chosen by a login holds a message.                                      *)
C14_AtMostOneEmptySession ==
    /\ \A student \in students : Cardinality(EmptySessions(student)) <= 1
    /\ (session_state.last = "login" /\ session_state.current_session_id # NoSession)
          => msgs[session_state.current_session_id] # <<>>

(* C15: the sessions of the store change only in the step in which a       *)
(* message is submitted while no session is chosen, and then by one        *)
(* session, which becomes the chosen one; login, New Chat, Load Session,   *)
(* logout and a message submitted in a chosen session leave them as they   *)
(* were.                                                                   *)
C15_SessionsCreatedOnFirstMessage ==
    [][/\ sessions' # sessions =>
             /\ session_state.logged_in
             /\ session_state.pc = "idle"
             /\ session_state.current_session_id = NoSession
             /\ session_state'.pc = "send"
             /\ session_state'.user_input \in Texts
             /\ Len(sessions') = Len(sessions) + 1
             /\ session_state'.current_session_id = Len(sessions')
       /\ (session_state.logged_in # session_state'.logged_in) => sessions' = sessions
       /\ (session_state.pc = "idle" /\ session_state'.pc = "idle") => sessions' = sessions
       /\ session_state.current_session_id # NoSession => sessions' = sessions]_vars

C15_Witness ==
    /\ session_state.pc = "send"
    /\ session_state.current_session_id = 2
    /\ session_state.messages = <<>>
    /\ Len(sessions) = 2
    /\ msgs[1] # <<>>

(* C16: a /chat call whose caller has timed out stores nothing from then   *)
(* on.                                                                     *)
C16_AbandonedCallStoresNothing ==
    [][\A r \in session_state.gave_up : req'[r].saved <= req[r].saved]_vars

(* C17: the e-mail of a caller is taken without regard to letter case and  *)
(* surrounding whitespace.  Every student row is a normalised e-mail, so   *)
(* there is one row at most per normalised e-mail, and every session is    *)
(* owned by a student row; a /sessions/new call adds its session to the    *)
(* one student row of its e-mail however the e-mail is spelt; and the      *)
(* session list and the conversation a call is answered are the ones any   *)
(* other spelling of its e-mail is answered.                               *)
C17_EmailNormalised ==
    /\ \A a \in students : Normalize(a) = a
    /\ \A a \in students, b \in students : Normalize(a) = Normalize(b) => a = b
    /\ \A i \in 1..Len(sessions) : sessions[i].owner \in students
    /\ \A r \in Workers :
          req[r].pc = "done" =>
             \A v \in Emails :
                Normalize(v) = Normalize(req[r].user_id) =>
                   /\ (req[r].op = "new" /\ req[r].response.status = 200) =>
                         /\ sessions[req[r].response.body.session_id].owner
                               = Normalize(v)
                         /\ get_or_create_student(v) = students
                   /\ req[r].op = "list" =>
                         req[r].response = sessions_response(v)
                   /\ req[r].op = "conversation" =>
                         req[r].response
                            = conversation_response(req[r].session_id, v)

C17_Witness ==
    \E r \in Workers :
        /\ req[r].op = "new" /\ req[r].pc = "done"
        /\ req[r].user_id = EmailAVariant
        /\ req[r].response.status = 200
        /\ req[r].response.body.session_id = 2
        /\ sessions[1].owner = EmailA
        /\ sessions[2].owner = EmailA
        /\ students = {EmailA}

(* C18: no step removes, edits or reorders a stored message: the history   *)
(* of every session before a step is a prefix of its history after the     *)
(* step; and no step removes a session or changes the owner of one.        *)
C18_AppendOnly ==
    [][/\ \A s \in SessionIds :
             /\ Len(msgs[s]) <= Len(msgs'[s])
             /\ SubSeq(msgs'[s], 1, Len(msgs[s])) = msgs[s]
       /\ Len(sessions) <= Len(sessions')
       /\ \A i \in 1..Len(sessions) : sessions'[i].owner = sessions[i].owner]_vars

C18_Witness ==
    /\ Len(sessions) = 2
    /\ sessions[1].owner # sessions[2].owner
    /\ Len(msgs[1]) = 3
    /\ msgs[1][1].role = "user" /\ msgs[1][2].role = "user"
    /\ \E r \in Workers : req[r].pc = "save_assistant" /\ req[r].session_id = 1

(* C19: when a /chat call stores its user message, the prior turns it gave *)
(* to the model are the messages then stored in the session, which are the *)
(* messages that stay before its user message; calls on the same session   *)
(* served at the same time included.                                       *)
C19_ModelSawStoredHistory ==
    [][\A r \in Workers :
          (req[r].pc = "save_user" /\ req'[r].pc = "save_assistant") =>
             req[r].gateway_history
                = convert_to_gemini_format(msgs[req[r].session_id])]_vars

(* C20: a step of a /chat call changes the messages of no session but its  *)
(* own and changes no session row; it reads its own session only (the      *)
(* turns it builds are that session's stored messages and its message),    *)
(* and what it stores is built from its own request; so a call that was    *)
(* the only one to store in its session while it ran leaves there the      *)
(* history it read, its message and the reply, whatever calls on other     *)
(* sessions did meanwhile.                                                 *)
C20_SessionsIndependent ==
    [][\A r \in Workers :
          (req'[r] # req[r] /\ req'[r].op = "chat") =>
             LET s == req'[r].session_id IN
             /\ sessions' = sessions
             /\ \A s2 \in SessionIds : s2 # s => msgs'[s2] = msgs[s2]
             /\ (Starts(r, "chat") /\ req'[r].pc = "gemini") =>
                   /\ msgs' = msgs
                   /\ req'[r].gemini_messages
                         = Append(convert_to_gemini_format(msgs[s]),
                                  [role |-> "user", text |-> req'[r].message])
             /\ msgs'[s] # msgs[s] =>
                   \/ /\ req[r].pc = "save_user"
                      /\ msgs'[s] = Append(msgs[s], [role |-> "user",
                                                     content |-> req[r].message])
                   \/ /\ req[r].pc = "save_assistant"
                      /\ msgs'[s] = Append(msgs[s], [role |-> "assistant",
                                                     content |-> req[r].ai_response])
                      /\ AnswerTo(req[r].ai_response) = req[r].message
             /\ (/\ req[r].pc = "save_assistant"
                 /\ req'[r].response.status = 200
                 /\ Len(msgs'[s]) = Len(req[r].gemini_messages) + 1) =>
                   convert_to_gemini_format(msgs'[s])
                      = Append(req[r].gemini_messages,
                               [role |-> "model", text |-> req[r].ai_response])]_vars

C20_Witness ==
    /\ req["w1"].pc = "save_assistant"
    /\ req["w2"].pc = "save_assistant"
    /\ req["w1"].session_id = 1
    /\ req["w2"].session_id = 2
    /\ Len(msgs[1]) = 1
    /\ Len(msgs[2]) = 1

(* C21: the turns a /chat call builds are one more than the messages       *)
(* stored in its session when it reads them: turn i has the content of     *)
(* message i and the role model for an assistant message, user for any     *)
(* other, and the last turn is the request's message with the role user;   *)
(* the model is given all turns but the last as history and the text of    *)
(* the last turn as the message; neither step changes a stored message.    *)
C21_TurnsFromHistory ==
    [][\A r \in Workers :
          /\ (Starts(r, "chat") /\ req'[r].pc = "gemini") =>
                LET history == msgs[req'[r].session_id]
                    turns == req'[r].gemini_messages
                IN  /\ Len(turns) = Len(history) + 1
                    /\ \A i \in 1..Len(history) :
                          /\ turns[i].text = history[i].content
                          /\ turns[i].role =
                                IF history[i].role = "assistant" THEN "model" ELSE "user"
                    /\ turns[Len(turns)] = [role |-> "user", text |-> req'[r].message]
                    /\ msgs' = msgs
          /\ (req[r].pc = "gemini" /\ req'[r].pc # "gemini") =>
                LET turns == req[r].gemini_messages IN
                /\ req'[r].called
                /\ req'[r].gateway_history = SubSeq(turns, 1, Len(turns) - 1)
                /\ Len(req'[r].gateway_history) = Len(turns) - 1
                /\ req'[r].gateway_text = req[r].message
                /\ req'[r].gemini_messages = turns
                /\ msgs' = msgs]_vars

C21_Witness ==
    \E r \in Workers :
        /\ req[r].called
        /\ req[r].pc = "save_user"
        /\ Len(req[r].gateway_history) = 2
        /\ req[r].gateway_history[1].role = "user"
        /\ req[r].gateway_history[2].role = "model"
        /\ req[r].gateway_text = "hi"
        /\ Len(msgs[req[r].session_id]) = 2

(* C22: a /chat call stores a message only in a session owned by the       *)
(* student of the call's user_id.                                          *)
C22_OnlyOwnerAppends ==
    [][\A r \in Workers :
          (req[r].op = "chat" /\ req'[r].saved > req[r].saved) =>
             sessions[req[r].session_id].owner = Normalize(req[r].user_id)]_vars

(* C23: whenever the client is between two user actions with a session     *)
(* chosen, the messages it shows are the stored messages of that session,  *)
(* with the same roles and contents in the same order; also after a        *)
(* message that failed to be sent.                                         *)
C23_ShownIsStored ==
    (/\ session_state.pc = "idle"
     /\ session_state.current_session_id # NoSession) =>
        session_state.messages = Shown(msgs[session_state.current_session_id])

(* C24: between two user actions the session id is unset exactly when the  *)
(* session name is unset, no message is shown while no session is chosen,  *)
(* and while nobody is logged in the user id, the user name, the chosen    *)
(* session, the messages shown and the cached session list are all         *)
(* cleared.                                                                *)
C24_ClientStateConsistent ==
    session_state.pc = "idle" =>
       /\ session_state.current_session_id = NoSession
             <=> session_state.current_session_name = NoName
       /\ session_state.current_session_id = NoSession =>
             session_state.messages = <<>>
       /\ ~session_state.logged_in =>
             /\ session_state.current_user_id = <<>>
             /\ session_state.current_user_name = <<>>
             /\ session_state.current_session_id = NoSession
             /\ session_state.current_session_name = NoName
             /\ session_state.messages = <<>>
             /\ session_state.sessions_list = <<>>

C24_Witness ==
    /\ ~session_state.logged_in
    /\ session_state.last = "logout"
    /\ session_state.pc = "idle"
    /\ session_state.sessions_list = <<>>
    /\ session_state.messages = <<>>
    /\ Len(sessions) = 2
    /\ msgs[2] # <<>>

(* C25: the session chosen at the client is a session of the user logged   *)
(* in; it is set only to the session a /sessions/new call of that user     *)
(* has just returned or to an entry of that user's session list; every     *)
(* /chat request the client sends names the chosen session and the user    *)
(* logged in.  When /sessions/new fails on a first message, no /chat       *)
(* request is sent, the message is not shown and no session is chosen.     *)
(* A logout leaves no session chosen, and a login chooses none or one of   *)
(* the sessions of the user who logs in.                                   *)
C25_ClientUsesOwnSessions ==
    /\ [](/\ session_state.current_session_id # NoSession =>
                /\ session_state.logged_in
                /\ session_state.current_session_id
                      \in OwnedBy(session_state.current_user_id)
          /\ session_state.pc = "waiting" =>
                /\ req[session_state.worker].op = "chat"
                /\ req[session_state.worker].session_id
                      = session_state.current_session_id
                /\ req[session_state.worker].user_id
                      = session_state.current_user_id)
    /\ [][/\ \A r \in Workers :
                /\ Starts(r, "chat") =>
                      /\ session_state'.pc = "waiting"
                      /\ session_state'.worker = r
                      /\ req'[r].user_id = session_state'.current_user_id
                      /\ req'[r].session_id = session_state'.current_session_id
                      /\ req'[r].session_id \in OwnedBy(session_state'.current_user_id)
                /\ (Starts(r, "new") /\ req'[r].response.status # 200) =>
                      /\ session_state'.current_session_id = NoSession
                      /\ session_state'.messages = session_state.messages
                      /\ session_state'.messages = <<>>
                      /\ session_state'.pc = "idle"
                      /\ msgs' = msgs
                      /\ \A r2 \in Workers : ~Starts(r2, "chat")
          /\ (/\ session_state'.current_session_id # session_state.current_session_id
              /\ session_state'.current_session_id # NoSession) =>
                LET chosen == session_state'.current_session_id
                    listed == sessions_response(session_state'.current_user_id).body
                IN  \/ \E r \in Workers :
                          /\ Starts(r, "new")
                          /\ req'[r].response.status = 200
                          /\ req'[r].response.body.session_id = chosen
                          /\ req'[r].user_id = session_state.current_user_id
                    \/ \E k \in DOMAIN listed : listed[k].session_id = chosen
          /\ (session_state.logged_in /\ ~session_state'.logged_in) =>
                session_state'.current_session_id = NoSession
          /\ LoggingIn =>
                session_state'.current_session_id
                   \in {NoSession} \cup OwnedBy(session_state'.current_user_id)]_vars

C25_Witness ==
    /\ session_state.current_user_id = EmailB
    /\ session_state.pc = "waiting"
    /\ req[session_state.worker].session_id = 2
    /\ sessions[2].owner = EmailB
    /\ sessions[1].owner = EmailA
    /\ msgs[1] # <<>>

====
